---- MODULE Spec2Model ----
(***************************************************************************)
(* Anchor dependency and change propagation of the rmf_site editor: the    *)
(* measurement systems of rmf_site_editor/src/site/measurement.rs, the     *)
(* drawing systems of rmf_site_editor/src/site/drawing.rs, and the         *)
(* measurement spawn of rmf_sandbox/src/measurement.rs.                    *)
(*                                                                         *)
(* Numbers.  Anchor coordinates are whole metres.  A real value is kept    *)
(* exactly: a half is a reduced fraction [num, den], a square root is      *)
(* [whole, rem] with whole = floor(sqrt n) and rem = n - whole^2, and an   *)
(* angle atan2(y, x) is the reduced direction <<x, y>> / gcd it points to. *)
(***************************************************************************)
EXTENDS Integers, Sequences, FiniteSets, TLC

\* ------------------------------------------------------------------ bounds
MaxAnchors == 2
MaxMeasurements == 2
MaxOps == 2
MaxDrawings == 3
MaxImages == 2
MaxEdits == 1
MaxBytes == 5
MaxFrames == 4
MaxCameras == 2
MaxEvents == 2

XCoords == {0, 3}
YCoords == {0, 4}
Positions == XCoords \X YCoords

AnchorIds == 1..MaxAnchors
MeasurementIds == 1..MaxMeasurements
DrawingIds == 1..MaxDrawings
ImageIds == 1..MaxImages
Poses == {<<0, 0>>, <<3, 4>>}
PixelsPerMeterValues == {1, 2}

NoSegment == [none |-> TRUE]
NoRank == [none |-> TRUE]
NoTransform == [none |-> TRUE]
NoEntry == [none |-> TRUE]

\* ------------------------------------------------------------ real numbers
Abs(n) == IF n < 0 THEN -n ELSE n

RECURSIVE Gcd(_, _)
Gcd(a, b) == IF b = 0 THEN a ELSE Gcd(b, a % b)

\* f64 / 2. : the exact half of an integer, as a reduced fraction.
Half(n) ==
    IF n % 2 = 0 THEN [num |-> n \div 2, den |-> 1] ELSE [num |-> n, den |-> 2]

RECURSIVE ISqrtFrom(_, _)
ISqrtFrom(n, r) == IF (r + 1) * (r + 1) > n THEN r ELSE ISqrtFrom(n, r + 1)

\* Vec2::length: sqrt(x*x + y*y), kept exactly as floor and remainder.
Vec2Length(x, y) ==
    LET n == x * x + y * y
        w == ISqrtFrom(n, 0)
    IN  [whole |-> w, rem |-> n - w * w]

\* f64::atan2(self = y, other = x): the angle of the vector (x, y); the angle
\* of the zero vector is 0, as IEEE 754 defines atan2(+0, +0).
Atan2(y, x) ==
    IF x = 0 /\ y = 0
    THEN <<1, 0>>
    ELSE LET g == Gcd(Abs(x), Abs(y)) IN <<x \div g, y \div g>>


\* ------------------------------------------------------------------- state
VARIABLES
    program,          \* which binary runs: "site_editor" or "sandbox"
    anchors,          \* site editor: the anchor entities that exist
    nextAnchor,       \* site editor: anchor handles handed out so far
    anchorPos,        \* site editor: Anchor position of every anchor
    dependents,       \* site editor: the Dependents component of every anchor
    measurements,     \* site editor: the measurement entities that exist
    nextMeasurement,  \* site editor: measurement handles handed out so far
    edge,             \* site editor: Edge<Entity> of every measurement
    segment,          \* site editor: Transform of the MeasurementSegment child
    changedAnchors,   \* site editor: anchors matching Changed<Anchor> this tick
    changedEdges,     \* site editor: measurements matching Changed<Edge> this tick
    ops,              \* site editor: operations applied since the last tick
    panicked,         \* site editor: an unwrap() hit Err and aborted the process
    lastOp,           \* history: the operation that produced this state
    tickLog,          \* history: what the tick that produced this state did
    vertices,         \* sandbox: the Vec<Vertex> of the level
    sandboxMeasurement, \* sandbox: the Measurement {start, end}
    levelZ,           \* sandbox: the LevelTransform translation[2], in 0.01 m
    spawned,          \* sandbox: the PbrBundle spawned for the measurement
    drawings,         \* drawings: the drawing entities that exist
    source,           \* drawings: AssetSource of every drawing, an image
    pose,             \* drawings: Pose of every drawing
    pixelsPerMeter,   \* drawings: PixelsPerMeter of every drawing
    ranking,          \* drawings: the recency ranking, lowest layer first
    recencyRank,      \* drawings: RecencyRank<DrawingMarker> of every drawing
    rootTransform,    \* drawings: Transform of every drawing entity
    drawingSegments,  \* drawings: DrawingSegments.leaf, an index into leaves
    leaves,           \* drawings: the leaf children of every drawing
    loadingDrawings,  \* drawings: LoadingDrawings, by image handle
    imageLoad,        \* drawings: the asset server's load state of every image
    assetEvents,      \* drawings: AssetEvent::Created not yet read
    workspace,        \* drawings: whether a current workspace path exists
    floorVisibility,  \* drawings: the default FloorVisibility
    addedDrawings,    \* drawings: Added<DrawingMarker> for add_drawing_visuals
    changedSource,    \* drawings: Changed<AssetSource> for update_drawing_visuals
    changedRank,      \* drawings: Changed<RecencyRank> for update_drawing_rank
    changedPpm,       \* drawings: Changed<PixelsPerMeter>
    edits,            \* drawings: operations of the user so far
    inFrame,          \* drawings: the systems of a frame are running
    drawingOp,        \* history: the drawing operation that produced this state
    requestedImage,   \* history: the image last requested for every drawing
    workcell,         \* workcell: the Workcell in memory
    written,          \* workcell: the JSON text that to_string produced
    parsed,           \* workcell: the Workcell that from_str returned
    urdfBytes,        \* urdf loader: the bytes of the asset file
    urdfLoader,       \* urdf loader: the loader that ran, "none" before
    defaultAsset,     \* urdf loader: the default asset of the LoadContext
    loadResult,       \* urdf loader: what the loader returned
    hoverOld,         \* ui: Events<Hover>, the events of the previous frame
    hoverNew,         \* ui: Events<Hover>, the events of this frame
    pickingBlockers,  \* ui: the PickingBlockers resource, if there is one
    uiPhase,          \* ui: what runs next in the frame
    uiFrames,         \* ui: frames started so far
    uiRun,            \* history: the last run of standard_ui_layout
    cameraProperties, \* previews: PhysicalCameraProperties of every camera
    changedProperties,\* previews: Changed<PhysicalCameraProperties>
    window,           \* previews: the Window component of every entity
    camera,           \* previews: the Camera component of every sensor
    projection,       \* previews: the fov of the Projection of every sensor
    previewEvents,    \* previews: SpawnPreview events not yet read
    closedWindows,    \* previews: WindowClosed events not yet read
    closedBefore,     \* history: entities whose Window was removed on a close
    previewOp         \* history: the preview operation that produced this state

editorVars ==
    <<anchors, nextAnchor, anchorPos, dependents, measurements, nextMeasurement,
      edge, segment, changedAnchors, changedEdges, ops, panicked, lastOp, tickLog>>
sandboxVars == <<vertices, sandboxMeasurement, levelZ, spawned>>
drawingVars ==
    <<drawings, source, pose, pixelsPerMeter, ranking, recencyRank, rootTransform,
      drawingSegments, leaves, loadingDrawings, imageLoad, assetEvents, workspace,
      floorVisibility, addedDrawings, changedSource, changedRank, changedPpm,
      edits, inFrame, drawingOp, requestedImage>>
workcellVars == <<workcell, written, parsed>>
urdfVars == <<urdfBytes, urdfLoader, defaultAsset, loadResult>>
uiVars == <<hoverOld, hoverNew, pickingBlockers, uiPhase, uiFrames, uiRun>>
previewVars ==
    <<cameraProperties, changedProperties, window, camera, projection,
      previewEvents, closedWindows, closedBefore, previewOp>>
auxVars == <<workcellVars, urdfVars, uiVars, previewVars>>
vars == <<program, editorVars, sandboxVars, drawingVars, auxVars>>

NoEdge == <<0, 0>>
NoOp == [op |-> "none", target |-> 0, result |-> "Ok", absent |-> 0]
NoTick ==
    [affected |-> {}, recomputes |-> [e \in MeasurementIds |-> 0], failed |-> {}]
Op(name, target, result, absent) ==
    [op |-> name, target |-> target, result |-> result, absent |-> absent]

\* ------------------------------------------------------- layering constants
DRAWING_LAYER_START == 0
\* The literal 0.001, in the z unit of this model (1/60000 m), so that a rank
\* proportion of up to six layers divides it exactly.
LayerStep == 60
MEASUREMENT_LAYER_START == DRAWING_LAYER_START + LayerStep

\* ------------------------------------------------------- dependents index
\* Mutant of Insert: inserting a value that is already there takes it out.
InsertToggle(set, e) == IF e \in set THEN set \ {e} ELSE set \cup {e}

\* HashSet::insert
Insert(set, e) == set \cup {e}

\* Mutant of Remove: removing a value that is not there empties the set.
RemoveOrClear(set, e) == IF e \in set THEN set \ {e} ELSE {}

\* HashSet::remove: removing a value that is not in the set changes nothing.
Remove(set, e) == set \ {e}

\* Mutant of Register: the Ok and the Err case of get_mut are exchanged.
RegisterInverted(anchorSet, deps, a, e) ==
    IF a \notin anchorSet THEN [deps EXCEPT ![a] = Insert(@, e)] ELSE deps

\* if let Ok(mut deps) = dependents.get_mut(anchor) { deps.insert(e); }
Register(anchorSet, deps, a, e) ==
    IF a \in anchorSet THEN [deps EXCEPT ![a] = Insert(@, e)] ELSE deps

\* deregister(anchor_id, dependent_id)
Deregister(anchorSet, deps, a, e) ==
    IF a \in anchorSet THEN [deps EXCEPT ![a] = Remove(@, e)] ELSE deps

\* Edge::array(): [start, end]
EdgeArray(ed) == <<ed[1], ed[2]>>

\* Mutant of RegisterEdge: the loop stops after the start anchor.
RegisterEdgeStartOnly(anchorSet, deps, ed, e) ==
    Register(anchorSet, deps, EdgeArray(ed)[1], e)

\* for anchor in &edge.array() { register }
RegisterEdge(anchorSet, deps, ed, e) ==
    Register(anchorSet, Register(anchorSet, deps, EdgeArray(ed)[1], e),
             EdgeArray(ed)[2], e)

DeregisterEdge(anchorSet, deps, ed, e) ==
    Deregister(anchorSet, Deregister(anchorSet, deps, EdgeArray(ed)[1], e),
               EdgeArray(ed)[2], e)

\* How many of the deregister calls of DeregisterEdge name an absent pair.
AbsentDeregisters(anchorSet, deps, ed, e) ==
    LET first == Deregister(anchorSet, deps, ed[1], e)
    IN  (IF e \in deps[ed[1]] THEN 0 ELSE 1)
        + (IF e \in first[ed[2]] THEN 0 ELSE 1)

\* ---------------------------------------------------------------- geometry
Err == [err |-> TRUE]

\* AnchorParams::point_in_parent_frame_of: Ok(position) of an existing anchor,
\* Err for an entity that is no anchor.
PointInParentFrameOf(a) ==
    IF a \in anchors THEN [ok |-> anchorPos[a]] ELSE Err

\* line_stroke_transform(p_start, p_end, width)
LineStrokeTransform(pStart, pEnd, width) ==
    LET dx == pEnd[1] - pStart[1]
        dy == pEnd[2] - pStart[2]
    IN  [translation |-> <<Half(pStart[1] + pEnd[1]), Half(pStart[2] + pEnd[2]), 0>>,
         rotation |-> Atan2(dy, dx),
         scale |-> <<Vec2Length(dx, dy), width, 1>>]

\* Mutant of UpdateMeasurementVisual: an endpoint that is no anchor is
\* replaced by the other endpoint.
UpdateMeasurementVisualSubstitute(ed) ==
    LET startAnchor == PointInParentFrameOf(ed[1])
        endAnchor == PointInParentFrameOf(ed[2])
        startPoint == IF startAnchor = Err THEN endAnchor ELSE startAnchor
        endPoint == IF endAnchor = Err THEN startAnchor ELSE endAnchor
    IN  IF startPoint = Err \/ endPoint = Err
        THEN Err
        ELSE [LineStrokeTransform(startPoint.ok, endPoint.ok, "LANE_WIDTH")
                EXCEPT !.translation[3] = MEASUREMENT_LAYER_START]

\* Mutant of UpdateMeasurementVisual: the direction is normalised before the
\* angle is taken, which is not a number for a zero-length stroke.
UpdateMeasurementVisualNormalised(ed) ==
    LET startAnchor == PointInParentFrameOf(ed[1])
        endAnchor == PointInParentFrameOf(ed[2])
    IN  IF startAnchor = Err \/ endAnchor = Err
        THEN Err
        ELSE LET tf == LineStrokeTransform(startAnchor.ok, endAnchor.ok, "LANE_WIDTH")
             IN  [tf EXCEPT !.translation[3] = MEASUREMENT_LAYER_START,
                            !.rotation = IF startAnchor.ok = endAnchor.ok
                                         THEN <<0, 0>> ELSE @]

\* update_measurement_visual: the new Transform, or Err where unwrap() panics.
UpdateMeasurementVisual(ed) ==
    LET startAnchor == PointInParentFrameOf(ed[1])
        endAnchor == PointInParentFrameOf(ed[2])
    IN  IF startAnchor = Err \/ endAnchor = Err
        THEN Err
        ELSE [LineStrokeTransform(startAnchor.ok, endAnchor.ok, "LANE_WIDTH")
                EXCEPT !.translation[3] = MEASUREMENT_LAYER_START]


\* ------------------------------------------------- site editor: operations
\* Mutant of EditorRuns: the editor goes on after a panic.
EditorRunsAlways == program = "site_editor"

EditorRuns == program = "site_editor" /\ ~panicked

\* An operation of the user, between two ticks.
UserOp == EditorRuns /\ ops < MaxOps /\ ops' = ops + 1

HasSegment(e) == e \in measurements /\ segment[e] # NoSegment

\* Anchor Store create(position) -> AnchorId.  A new anchor has no dependents,
\* so the tick it is added in has nothing to recompute for it.
CreateAnchor(p) ==
    /\ UserOp
    /\ nextAnchor < MaxAnchors
    /\ LET a == nextAnchor + 1 IN
        /\ nextAnchor' = a
        /\ anchors' = anchors \cup {a}
        /\ anchorPos' = [anchorPos EXCEPT ![a] = p]
        /\ lastOp' = Op("create_anchor", a, "Ok", 0)
    /\ tickLog' = NoTick
    /\ UNCHANGED <<program, changedAnchors, dependents, measurements, nextMeasurement, edge,
                   segment, changedEdges, panicked, sandboxVars, drawingVars, auxVars>>

\* Anchor Store set(id, position): fails with UnknownAnchor for an id that is
\* not in the store, and otherwise writes the position and notifies the
\* propagation engine.
MoveAnchor(a, p) ==
    /\ UserOp
    /\ IF a \in anchors
       THEN /\ anchorPos' = [anchorPos EXCEPT ![a] = p]
            /\ changedAnchors' = changedAnchors \cup {a}
            /\ lastOp' = Op("set", a, "Ok", 0)
       ELSE /\ lastOp' = Op("set", a, "UnknownAnchor", 0)
            /\ UNCHANGED <<anchorPos, changedAnchors>>
    /\ tickLog' = NoTick
    /\ UNCHANGED <<program, anchors, nextAnchor, dependents, measurements,
                   nextMeasurement, edge, segment, changedEdges, panicked,
                   sandboxVars, drawingVars, auxVars>>

\* Anchor Store delete(id): fails with AnchorInUse while the dependents set of
\* the anchor is not empty.
DeleteAnchor(a) ==
    /\ UserOp
    /\ a \in anchors
    /\ IF dependents[a] # {}
       THEN /\ lastOp' = Op("delete_anchor", a, "AnchorInUse", 0)
            /\ UNCHANGED <<anchors, changedAnchors>>
       ELSE /\ anchors' = anchors \ {a}
            /\ changedAnchors' = changedAnchors \ {a}
            /\ lastOp' = Op("delete_anchor", a, "Ok", 0)
    /\ tickLog' = NoTick
    /\ UNCHANGED <<program, nextAnchor, anchorPos, dependents, measurements,
                   nextMeasurement, edge, segment, changedEdges, panicked,
                   sandboxVars, drawingVars, auxVars>>

\* Mutant of AddMeasurementVisuals: the registration loop is left out.
AddMeasurementVisualsNoRegister(e, ed) ==
    LET startPoint == PointInParentFrameOf(ed[1])
        endPoint == PointInParentFrameOf(ed[2])
    IN  IF startPoint = Err \/ endPoint = Err
        THEN [transform |-> Err, deps |-> dependents]
        ELSE [transform |->
                [LineStrokeTransform(startPoint.ok, endPoint.ok, "LANE_WIDTH")
                    EXCEPT !.translation[3] = MEASUREMENT_LAYER_START],
              deps |-> dependents]

\* Mutant of AddMeasurementVisuals: the registration loop runs before the
\* geometry is computed.
AddMeasurementVisualsRegisterFirst(e, ed) ==
    LET startPoint == PointInParentFrameOf(ed[1])
        endPoint == PointInParentFrameOf(ed[2])
    IN  IF startPoint = Err \/ endPoint = Err
        THEN [transform |-> Err, deps |-> RegisterEdge(anchors, dependents, ed, e)]
        ELSE [transform |->
                [LineStrokeTransform(startPoint.ok, endPoint.ok, "LANE_WIDTH")
                    EXCEPT !.translation[3] = MEASUREMENT_LAYER_START],
              deps |-> RegisterEdge(anchors, dependents, ed, e)]

\* add_measurement_visuals, for one measurement e added with the edge ed: the
\* segment transform it spawns (Err where unwrap() panics) and the Dependents
\* it leaves.
AddMeasurementVisuals(e, ed) ==
    LET startPoint == PointInParentFrameOf(ed[1])
        endPoint == PointInParentFrameOf(ed[2])
    IN  IF startPoint = Err \/ endPoint = Err
        THEN [transform |-> Err, deps |-> dependents]
        ELSE [transform |->
                [LineStrokeTransform(startPoint.ok, endPoint.ok, "LANE_WIDTH")
                    EXCEPT !.translation[3] = MEASUREMENT_LAYER_START],
              deps |-> RegisterEdge(anchors, dependents, ed, e)]

\* A measurement is created on two existing anchors and add_measurement_visuals
\* sees it through Added<MeasurementMarker>.  The segment is inserted through
\* Commands, so update_changed_measurement, whose query asks for the
\* MeasurementSegment, does not match the measurement for this first change
\* of its edge: add_measurement_visuals computes its first geometry.
AddMeasurementOn(s, t) ==
    /\ UserOp
    /\ nextMeasurement < MaxMeasurements
    /\ LET e == nextMeasurement + 1
           out == AddMeasurementVisuals(e, <<s, t>>)
       IN
        /\ nextMeasurement' = e
        /\ measurements' = measurements \cup {e}
        /\ edge' = [edge EXCEPT ![e] = <<s, t>>]
        /\ lastOp' = Op("add_measurement", e, "Ok", 0)
        /\ IF out.transform = Err
           THEN /\ panicked' = TRUE
                /\ dependents' = out.deps
                /\ UNCHANGED segment
           ELSE /\ segment' = [segment EXCEPT ![e] = out.transform]
                /\ dependents' = out.deps
                /\ UNCHANGED panicked
    /\ tickLog' = NoTick
    /\ UNCHANGED <<program, anchors, nextAnchor, anchorPos, changedAnchors,
                   changedEdges, sandboxVars, drawingVars, auxVars>>

AddMeasurement(s, t) == s \in anchors /\ t \in anchors /\ AddMeasurementOn(s, t)

\* A measurement is created whose edge names an anchor that has disappeared.
AddMeasurementStale(s, t) ==
    /\ s \in 1..nextAnchor /\ t \in 1..nextAnchor
    /\ ~(s \in anchors /\ t \in anchors)
    /\ AddMeasurementOn(s, t)

\* The reference descriptor of a measurement is replaced: the measurement
\* leaves the dependents of the anchors it named and joins those of the
\* anchors it names now.
ChangeEdge(e, s, t) ==
    /\ UserOp
    /\ e \in measurements
    /\ s \in anchors /\ t \in anchors
    /\ <<s, t>> # edge[e]
    /\ edge' = [edge EXCEPT ![e] = <<s, t>>]
    /\ dependents' =
        RegisterEdge(anchors, DeregisterEdge(anchors, dependents, edge[e], e),
                     <<s, t>>, e)
    /\ changedEdges' = changedEdges \cup {e}
    /\ lastOp' = Op("change_edge", e, "Ok",
                    AbsentDeregisters(anchors, dependents, edge[e], e))
    /\ tickLog' = NoTick
    /\ UNCHANGED <<program, anchors, nextAnchor, anchorPos, measurements,
                   nextMeasurement, segment, changedAnchors, panicked,
                   sandboxVars, drawingVars, auxVars>>

\* A measurement is deleted: it deregisters from every anchor of its edge.
DeleteMeasurement(e) ==
    /\ UserOp
    /\ e \in measurements
    /\ measurements' = measurements \ {e}
    /\ dependents' = DeregisterEdge(anchors, dependents, edge[e], e)
    /\ edge' = [edge EXCEPT ![e] = NoEdge]
    /\ segment' = [segment EXCEPT ![e] = NoSegment]
    /\ changedEdges' = changedEdges \ {e}
    /\ lastOp' = Op("delete_measurement", e, "Ok",
                    AbsentDeregisters(anchors, dependents, edge[e], e))
    /\ tickLog' = NoTick
    /\ UNCHANGED <<program, anchors, nextAnchor, anchorPos, nextMeasurement,
                   changedAnchors, panicked, sandboxVars, drawingVars, auxVars>>


\* ------------------------------------------------ site editor: propagation
\* Mutant of UpdateChangedMeasurement: the system never matches.
UpdateChangedMeasurementNever == {}

\* update_changed_measurement: the measurements it calls
\* update_measurement_visual for, those matching Changed<Edge> that have a
\* MeasurementSegment whose Transform exists.
UpdateChangedMeasurement == {e \in changedEdges : HasSegment(e)}

\* Mutant of UpdateMeasurementForMovedAnchors: only the start anchor of an
\* edge is followed.
UpdateMeasurementForMovedAnchorsStartOnly ==
    {r \in (changedAnchors \cap anchors) \X MeasurementIds :
        r[2] \in dependents[r[1]] /\ HasSegment(r[2]) /\ edge[r[2]][1] = r[1]}

\* update_measurement_for_moved_anchors: one call of update_measurement_visual
\* for every pair of a changed anchor and a dependent of it that is a
\* measurement with a segment.
UpdateMeasurementForMovedAnchors ==
    {r \in (changedAnchors \cap anchors) \X MeasurementIds :
        r[2] \in dependents[r[1]] /\ HasSegment(r[2])}

\* How often update_measurement_visual runs for e in one tick.
Recomputes(e) ==
    Cardinality({e} \cap UpdateChangedMeasurement)
    + Cardinality({r \in UpdateMeasurementForMovedAnchors : r[2] = e})

\* The affected-dependent set of the tick: the dependents of every changed
\* anchor and every dependent whose own reference descriptor changed.
Affected ==
    UNION {dependents[a] : a \in changedAnchors \cap anchors}
    \cup (changedEdges \cap measurements)

\* One propagation tick: both update systems run, then change detection
\* starts over.  An unwrap() of Err in update_measurement_visual panics: the
\* systems stop there, so the measurements recomputed in that tick are the
\* ones, done, that the loops reached before the failing one; which ones they
\* are depends on the order of the two systems and of the iteration over the
\* Dependents, a HashSet.
Tick ==
    /\ EditorRuns
    /\ LET ran == {e \in MeasurementIds : Recomputes(e) > 0}
           failing == {e \in ran : UpdateMeasurementVisual(edge[e]) = Err}
       IN  \E done \in SUBSET (ran \ failing) :
            /\ failing = {} => done = ran
            /\ panicked' = (failing # {})
            /\ segment' = [e \in MeasurementIds |->
                             IF e \in done
                             THEN UpdateMeasurementVisual(edge[e])
                             ELSE segment[e]]
            /\ tickLog' = [affected |-> Affected,
                           recomputes |-> [e \in MeasurementIds |->
                                              IF e \in done THEN Recomputes(e) ELSE 0],
                           failed |-> failing]
    /\ changedAnchors' = {}
    /\ changedEdges' = {}
    /\ ops' = 0
    /\ lastOp' = Op("tick", 0, "Ok", 0)
    /\ UNCHANGED <<program, anchors, nextAnchor, anchorPos, dependents,
                   measurements, nextMeasurement, edge, sandboxVars,
                   drawingVars, auxVars>>

\* An anchor entity disappears although measurements still name it: the
\* store and the index are out of step, and the Dependents of the anchor are
\* gone with it.
LoseAnchor(a) ==
    /\ UserOp
    /\ a \in anchors
    /\ dependents[a] # {}
    /\ anchors' = anchors \ {a}
    /\ dependents' = [dependents EXCEPT ![a] = {}]
    /\ changedAnchors' = changedAnchors \ {a}
    /\ lastOp' = Op("lose_anchor", a, "Ok", 0)
    /\ tickLog' = NoTick
    /\ UNCHANGED <<program, nextAnchor, anchorPos, measurements, nextMeasurement,
                   edge, segment, changedEdges, panicked, sandboxVars,
                   drawingVars, auxVars>>

\* ----------------------------------------------------------------- sandbox
SandboxZOffset == 1
LevelElevations == {0, 300}

\* Mutant of MeasurementSpawn: the arguments of atan2 are exchanged.
MeasurementSpawnSwapped(v1, v2, lz) ==
    LET dx == v2[1] - v1[1]
        dy == v2[2] - v1[2]
    IN  [mesh |-> <<Vec2Length(dx, dy), "0.25">>,
         translation |-> <<Half(v1[1] + v2[1]), Half(v1[2] + v2[2]), SandboxZOffset + lz>>,
         rotation |-> Atan2(dx, dy)]

\* Measurement::spawn: the PbrBundle spawned for a measurement between the
\* vertices v1 and v2 of a level whose transform has the elevation lz.
MeasurementSpawn(v1, v2, lz) ==
    LET dx == v2[1] - v1[1]
        dy == v2[2] - v1[2]
        length == Vec2Length(dx, dy)
        width == "0.25"
        yaw == Atan2(dy, dx)
        cx == Half(v1[1] + v2[1])
        cy == Half(v1[2] + v2[2])
    IN  [mesh |-> <<length, width>>,
         translation |-> <<cx, cy, SandboxZOffset + lz>>,
         rotation |-> yaw]

\* The site map spawns the measurement of the loaded level.
SandboxSpawn ==
    /\ program = "sandbox"
    /\ spawned = NoSegment
    /\ spawned' = MeasurementSpawn(vertices[sandboxMeasurement.start],
                                   vertices[sandboxMeasurement.end], levelZ)
    /\ UNCHANGED <<program, editorVars, vertices, sandboxMeasurement, levelZ,
                   drawingVars, auxVars>>

\* ---------------------------------------------------------------- drawings
\* The z at which the band of the floors starts; the band of the drawings
\* reaches from DRAWING_LAYER_START up to it.
FLOOR_LAYER_START == DRAWING_LAYER_START + LayerStep

\* RecencyRank::proportion: the rank as a fraction of the number of ranked
\* entities; rank counts from 0, so the fraction is below 1.
Proportion(r) == [num |-> r.rank, den |-> r.out_of]

\* Mutant of DrawingLayerHeight: the band is offset by its upper end.
DrawingLayerHeightFromFloor(rank) ==
    IF rank = NoRank
    THEN DRAWING_LAYER_START
    ELSE LET p == Proportion(rank)
         IN  (p.num * (FLOOR_LAYER_START - DRAWING_LAYER_START)) \div p.den
                 + FLOOR_LAYER_START

\* drawing_layer_height.
DrawingLayerHeight(rank) ==
    IF rank = NoRank
    THEN DRAWING_LAYER_START
    ELSE LET p == Proportion(rank)
         IN  (p.num * (FLOOR_LAYER_START - DRAWING_LAYER_START)) \div p.den
                 + DRAWING_LAYER_START

\* Vec3::new(1.0 / pixels_per_meter, 1.0 / pixels_per_meter, 1.), as the
\* fraction of its first two components.
Scale(ppm) == [num |-> 1, den |-> ppm]

\* pose.transform().with_scale(..): the transform of a drawing entity.
DrawingTransform(p, ppm) == [translation |-> p, scale |-> Scale(ppm)]

\* asset_server.load: an image that is neither loaded nor being loaded starts
\* to load; the handle of an image is the image.
AssetLoad(load, handle) ==
    [load EXCEPT ![handle] = IF @ = "unloaded" THEN "loading" ELSE @]

DrawingRuns == program = "site_editor"
\* The user and the asset server act between two frames.
BetweenFrames == DrawingRuns /\ ~inFrame
UserEdit == BetweenFrames /\ edits < MaxEdits /\ edits' = edits + 1
DrawingOp(name, touched) == [op |-> name, touched |-> touched]
NoDrawingOp == DrawingOp("none", {})

RankOf(seq, d) == CHOOSE k \in 1..Len(seq) : seq[k] = d
Ranked == {ranking[k] : k \in 1..Len(ranking)}

\* A drawing is created with the AssetSource i and the default Pose and
\* PixelsPerMeter; it enters the recency ranking on top.
AddDrawing(i) ==
    /\ BetweenFrames
    /\ Cardinality(drawings) < MaxDrawings
    /\ LET d == Cardinality(drawings) + 1
       IN  /\ drawings' = drawings \cup {d}
           /\ source' = [source EXCEPT ![d] = i]
           /\ ranking' = Append(ranking, d)
           /\ addedDrawings' = addedDrawings \cup {d}
           /\ changedSource' = changedSource \cup {d}
           /\ changedPpm' = changedPpm \cup {d}
           /\ drawingOp' = DrawingOp("add_drawing", {d})
    /\ UNCHANGED <<program, editorVars, sandboxVars, auxVars, requestedImage, inFrame, pose, pixelsPerMeter, recencyRank,
                   rootTransform, drawingSegments, leaves, loadingDrawings, imageLoad,
                   assetEvents, workspace, floorVisibility, changedRank, edits>>

\* The user points the drawing d to the image i.
ChangeSource(d, i) ==
    /\ UserEdit
    /\ d \in drawings
    /\ source[d] # i
    /\ source' = [source EXCEPT ![d] = i]
    /\ changedSource' = changedSource \cup {d}
    /\ drawingOp' = DrawingOp("change_source", {d})
    /\ UNCHANGED <<program, editorVars, sandboxVars, auxVars, requestedImage, inFrame, drawings, pose, pixelsPerMeter,
                   ranking, recencyRank, rootTransform, drawingSegments, leaves,
                   loadingDrawings, imageLoad, assetEvents, workspace, floorVisibility,
                   addedDrawings, changedRank, changedPpm>>

\* The user edits the Pose of the drawing d.
ChangePose(d, p) ==
    /\ UserEdit
    /\ d \in drawings
    /\ pose[d] # p
    /\ pose' = [pose EXCEPT ![d] = p]
    /\ drawingOp' = DrawingOp("change_pose", {d})
    /\ UNCHANGED <<program, editorVars, sandboxVars, auxVars, requestedImage, inFrame, drawings, source, pixelsPerMeter,
                   ranking, recencyRank, rootTransform, drawingSegments, leaves,
                   loadingDrawings, imageLoad, assetEvents, workspace, floorVisibility,
                   addedDrawings, changedSource, changedRank, changedPpm>>

\* The user edits the PixelsPerMeter of the drawing d.
ChangePixelsPerMeter(d, ppm) ==
    /\ UserEdit
    /\ d \in drawings
    /\ pixelsPerMeter[d] # ppm
    /\ pixelsPerMeter' = [pixelsPerMeter EXCEPT ![d] = ppm]
    /\ changedPpm' = changedPpm \cup {d}
    /\ drawingOp' = DrawingOp("change_pixels_per_meter", {d})
    /\ UNCHANGED <<program, editorVars, sandboxVars, auxVars, requestedImage, inFrame, drawings, source, pose, ranking,
                   recencyRank, rootTransform, drawingSegments, leaves, loadingDrawings,
                   imageLoad, assetEvents, workspace, floorVisibility, addedDrawings,
                   changedSource, changedRank>>

\* The explicit reorder command: the drawing d moves to the place k of the
\* ranking, the drawings between its old and its new place shift by one.
ChangeRank(d, k) ==
    /\ UserEdit
    /\ d \in Ranked
    /\ k \in 1..Len(ranking)
    /\ k # RankOf(ranking, d)
    /\ LET rest == SelectSeq(ranking, LAMBDA x : x # d)
       IN  ranking' = SubSeq(rest, 1, k - 1) \o <<d>> \o SubSeq(rest, k, Len(rest))
    /\ drawingOp' = DrawingOp("change_rank", {d})
    /\ UNCHANGED <<program, editorVars, sandboxVars, auxVars, requestedImage, inFrame, drawings, source, pose,
                   pixelsPerMeter, recencyRank, rootTransform, drawingSegments, leaves,
                   loadingDrawings, imageLoad, assetEvents, workspace, floorVisibility,
                   addedDrawings, changedSource, changedRank, changedPpm>>

\* A site file is opened or closed: the current workspace path appears or
\* disappears.
SetWorkspace ==
    /\ UserEdit
    /\ workspace' = ~workspace
    /\ drawingOp' = DrawingOp("set_workspace", {})
    /\ UNCHANGED <<program, editorVars, sandboxVars, auxVars, requestedImage, inFrame, drawings, source, pose,
                   pixelsPerMeter, ranking, recencyRank, rootTransform, drawingSegments,
                   leaves, loadingDrawings, imageLoad, assetEvents, floorVisibility,
                   addedDrawings, changedSource, changedRank, changedPpm>>

\* The asset server finishes loading the image i and sends
\* AssetEvent::Created for its handle.
ImageCreated(i) ==
    /\ BetweenFrames
    /\ imageLoad[i] = "loading"
    /\ imageLoad' = [imageLoad EXCEPT ![i] = "loaded"]
    /\ assetEvents' = Append(assetEvents, i)
    /\ drawingOp' = DrawingOp("image_created", {})
    /\ UNCHANGED <<program, editorVars, sandboxVars, auxVars, requestedImage, inFrame, drawings, source, pose,
                   pixelsPerMeter, ranking, recencyRank, rootTransform, drawingSegments,
                   leaves, loadingDrawings, workspace, floorVisibility, addedDrawings,
                   changedSource, changedRank, changedPpm, edits>>

\* A frame runs every system once, in an order the scheduler chooses; a
\* system that has nothing to read changes nothing.  The frame is over when
\* no system has anything left to read.
QuiescentExceptRanks ==
    /\ addedDrawings = {}
    /\ changedSource = {}
    /\ changedRank = {}
    /\ changedPpm = {}
    /\ assetEvents = <<>>

\* The rank resolver: every ranked drawing gets the RecencyRank of its place
\* in the ranking; the drawings whose RecencyRank changes are flagged.
NewRank(d) == [rank |-> RankOf(ranking, d) - 1, out_of |-> Len(ranking)]
Reranked == {d \in Ranked : recencyRank[d] # NewRank(d)}
Quiescent == QuiescentExceptRanks /\ Reranked = {}
UpdateRecencyRanks ==
    /\ DrawingRuns
    /\ Reranked # {}
    /\ recencyRank' = [d \in DrawingIds |->
                          IF d \in Ranked THEN NewRank(d) ELSE recencyRank[d]]
    /\ changedRank' = changedRank \cup Reranked
    /\ drawingOp' = DrawingOp("update_recency_ranks", Reranked)
    /\ UNCHANGED <<program, editorVars, sandboxVars, auxVars, requestedImage, drawings, source, pose,
                   pixelsPerMeter, ranking, rootTransform, drawingSegments, leaves,
                   loadingDrawings, imageLoad, assetEvents, workspace, floorVisibility,
                   addedDrawings, changedSource, changedPpm, edits>>
    /\ inFrame' = ~Quiescent'

\* The loop of add_drawing_visuals and of update_drawing_visuals over the
\* drawings ds of the query, in the order of their entities: the image of
\* each is requested and recorded in LoadingDrawings under its handle.
RECURSIVE RequestImages(_, _)
RequestImages(ds, acc) ==
    IF ds = {}
    THEN acc
    ELSE LET e == CHOOSE x \in ds : \A y \in ds : x <= y
             texture_handle == source[e]
         IN  RequestImages(ds \ {e},
                 [load |-> AssetLoad(acc.load, texture_handle),
                  loading |-> [acc.loading EXCEPT ![texture_handle] =
                                  [entity |-> e, pose |-> pose[e],
                                   pixels_per_meter |-> pixelsPerMeter[e]]]])

\* add_drawing_visuals.  The run consumes the Added flags whether or not a
\* workspace path exists.
AddDrawingVisuals ==
    /\ DrawingRuns
    /\ addedDrawings # {}
    /\ IF ~workspace
       THEN UNCHANGED <<loadingDrawings, imageLoad, floorVisibility>>
       ELSE LET r == RequestImages(addedDrawings,
                                   [load |-> imageLoad, loading |-> loadingDrawings])
            IN  /\ loadingDrawings' = r.loading
                /\ imageLoad' = r.load
                /\ floorVisibility' = "semi_transparent"
    /\ addedDrawings' = {}
    /\ requestedImage' =
          [d \in DrawingIds |->
              IF workspace /\ d \in addedDrawings THEN source[d] ELSE requestedImage[d]]
    /\ drawingOp' = DrawingOp("add_drawing_visuals", addedDrawings)
    /\ UNCHANGED <<program, editorVars, sandboxVars, auxVars, drawings, source, pose,
                   pixelsPerMeter, ranking, recencyRank, rootTransform, drawingSegments,
                   leaves, assetEvents, workspace, changedSource, changedRank,
                   changedPpm, edits>>
    /\ inFrame' = ~Quiescent'

\* update_drawing_visuals.
UpdateDrawingVisuals ==
    /\ DrawingRuns
    /\ changedSource # {}
    /\ IF ~workspace
       THEN UNCHANGED <<loadingDrawings, imageLoad>>
       ELSE LET r == RequestImages(changedSource,
                                   [load |-> imageLoad, loading |-> loadingDrawings])
            IN  /\ loadingDrawings' = r.loading
                /\ imageLoad' = r.load
    /\ changedSource' = {}
    /\ requestedImage' =
          [d \in DrawingIds |->
              IF workspace /\ d \in changedSource THEN source[d] ELSE requestedImage[d]]
    /\ drawingOp' = DrawingOp("update_drawing_visuals", changedSource)
    /\ UNCHANGED <<program, editorVars, sandboxVars, auxVars, drawings, source, pose,
                   pixelsPerMeter, ranking, recencyRank, rootTransform, drawingSegments,
                   leaves, assetEvents, workspace, floorVisibility, addedDrawings,
                   changedRank, changedPpm, edits>>
    /\ inFrame' = ~Quiescent'

\* The loop of handle_loaded_drawing over the events evs.  The queries see
\* the components as they were when the system started (drawingSegments,
\* recencyRank); LoadingDrawings, the Transform of a drawing that has its
\* segments and the mesh of its leaf are written at once; the spawn of a leaf
\* and the inserts are commands, queued in acc.commands.
RECURSIVE HandleEvents(_, _)
HandleEvents(evs, acc) ==
    IF evs = <<>>
    THEN acc
    ELSE LET handle == Head(evs)
             entry == acc.loading[handle]
         IN  IF entry = NoEntry
             THEN HandleEvents(Tail(evs), acc)
             ELSE LET entity == entry.entity
                      mesh == handle
                      transform == DrawingTransform(entry.pose, entry.pixels_per_meter)
                      removed == [acc.loading EXCEPT ![handle] = NoEntry]
                  IN  IF drawingSegments[entity] # 0
                      THEN HandleEvents(Tail(evs),
                               [acc EXCEPT !.loading = removed,
                                           !.root[entity] = transform,
                                           !.leaves[entity][drawingSegments[entity]].mesh = mesh])
                      ELSE LET z == DrawingLayerHeight(recencyRank[entity])
                               leaf == [x |-> 0, y |-> 0, z |-> z, rotation |-> <<1, 0>>,
                                        scale |-> 1, mesh |-> mesh, texture |-> handle]
                           IN  HandleEvents(Tail(evs),
                                   [acc EXCEPT !.loading = removed,
                                               !.commands = Append(@,
                                                   [entity |-> entity, leaf |-> leaf,
                                                    transform |-> transform])])

\* The commands of handle_loaded_drawing are applied in their order: the leaf
\* becomes a child of the drawing, the SpatialBundle and the DrawingSegments
\* are inserted, replacing the ones the drawing has.
RECURSIVE ApplyCommands(_, _)
ApplyCommands(cmds, acc) ==
    IF cmds = <<>>
    THEN acc
    ELSE LET cmd == Head(cmds)
             children == Append(acc.leaves[cmd.entity], cmd.leaf)
         IN  ApplyCommands(Tail(cmds),
                 [acc EXCEPT !.leaves[cmd.entity] = children,
                             !.root[cmd.entity] = cmd.transform,
                             !.segments[cmd.entity] = Len(children)])

\* handle_loaded_drawing.
HandleLoadedDrawing ==
    /\ DrawingRuns
    /\ assetEvents # <<>>
    /\ LET handled == HandleEvents(assetEvents,
                          [loading |-> loadingDrawings, root |-> rootTransform,
                           leaves |-> leaves, commands |-> <<>>])
           applied == ApplyCommands(handled.commands,
                          [leaves |-> handled.leaves, root |-> handled.root,
                           segments |-> drawingSegments])
       IN  /\ loadingDrawings' = handled.loading
           /\ rootTransform' = applied.root
           /\ leaves' = applied.leaves
           /\ drawingSegments' = applied.segments
           /\ drawingOp' = DrawingOp("handle_loaded_drawing",
                               {d \in DrawingIds : rootTransform'[d] # rootTransform[d]
                                                   \/ leaves'[d] # leaves[d]})
    /\ assetEvents' = <<>>
    /\ UNCHANGED <<program, editorVars, sandboxVars, auxVars, requestedImage, drawings, source, pose,
                   pixelsPerMeter, ranking, recencyRank, imageLoad, workspace,
                   floorVisibility, addedDrawings, changedSource, changedRank,
                   changedPpm, edits>>
    /\ inFrame' = ~Quiescent'

\* Transform::from_xyz(0.0, 0.0, z) of a leaf has the identity rotation, the
\* direction <<1, 0>>, and the scale 1.
\* Mutant of SetLayerHeight: the height is written to the wrong component.
SetLayerHeightOfX(tf, rank) == [tf EXCEPT !.x = DrawingLayerHeight(rank)]

\* The body of the loop of update_drawing_rank: tf.translation.z = z.
SetLayerHeight(tf, rank) == [tf EXCEPT !.z = DrawingLayerHeight(rank)]

\* update_drawing_rank: the drawings of the query are those whose RecencyRank
\* changed and that have their DrawingSegments.
RankTouched == {d \in changedRank : drawingSegments[d] # 0}
UpdateDrawingRank ==
    /\ DrawingRuns
    /\ changedRank # {}
    /\ leaves' = [d \in DrawingIds |->
                     IF d \in RankTouched
                     THEN [leaves[d] EXCEPT ![drawingSegments[d]] =
                              SetLayerHeight(@, recencyRank[d])]
                     ELSE leaves[d]]
    /\ changedRank' = {}
    /\ drawingOp' = DrawingOp("update_drawing_rank", RankTouched)
    /\ UNCHANGED <<program, editorVars, sandboxVars, auxVars, requestedImage, drawings, source, pose,
                   pixelsPerMeter, ranking, recencyRank, rootTransform, drawingSegments,
                   loadingDrawings, imageLoad, assetEvents, workspace, floorVisibility,
                   addedDrawings, changedSource, changedPpm, edits>>
    /\ inFrame' = ~Quiescent'

\* update_drawing_pixels_per_meter: the drawings of the query are those whose
\* PixelsPerMeter changed and that have a Transform.
PpmTouched == {d \in changedPpm : rootTransform[d] # NoTransform}
UpdateDrawingPixelsPerMeter ==
    /\ DrawingRuns
    /\ changedPpm # {}
    /\ rootTransform' = [d \in DrawingIds |->
                            IF d \in PpmTouched
                            THEN [rootTransform[d] EXCEPT !.scale = Scale(pixelsPerMeter[d])]
                            ELSE rootTransform[d]]
    /\ changedPpm' = {}
    /\ drawingOp' = DrawingOp("update_drawing_pixels_per_meter", PpmTouched)
    /\ UNCHANGED <<program, editorVars, sandboxVars, auxVars, requestedImage, drawings, source, pose,
                   pixelsPerMeter, ranking, recencyRank, drawingSegments, leaves,
                   loadingDrawings, imageLoad, assetEvents, workspace, floorVisibility,
                   addedDrawings, changedSource, changedRank, edits>>
    /\ inFrame' = ~Quiescent'

\* ---------------------------------------------------------------- workcell
\* A Workcell holds frames and models in two BTreeMap<u32, Parented<u32, T>>.
\* An Option<u32> is <<>> for None and <<p>> for Some(p).  The ids are chosen
\* so that two of them share a digit and one is a key of both maps.
FrameKeys == {1, 2, 10}
ModelKeys == {2, 12}
ParentIds == {1, 10, 12}
NoText == [none |-> TRUE]
NoWorkcell == [none |-> TRUE]
JsonNull == [null |-> TRUE]

\* Parented<u32, T> { parent, bundle }
ParentedValues(bundle) == [parent : {<<>>} \cup {<<p>> : p \in ParentIds}, bundle : {bundle}]
MapsOver(keys, bundle) == UNION {[K -> ParentedValues(bundle)] : K \in SUBSET keys}
Workcells ==
    [name : {"workcell"}, frames : MapsOver(FrameKeys, "frame"),
     models : MapsOver(ModelKeys, "model")]

\* The decimal text of a u32 and the u32 of a decimal text, as serde_json
\* writes and reads a number and a map key.
RECURSIVE ToDecimal(_)
ToDecimal(n) == IF n < 10 THEN <<n>> ELSE ToDecimal(n \div 10) \o <<n % 10>>
RECURSIVE FromDecimal(_)
FromDecimal(digits) ==
    IF Len(digits) = 0
    THEN 0
    ELSE 10 * FromDecimal(SubSeq(digits, 1, Len(digits) - 1)) + digits[Len(digits)]

\* Option<u32> is written as null or as the number, and read back from them.
SerializeOption(o) == IF o = <<>> THEN JsonNull ELSE [number |-> ToDecimal(o[1])]
DeserializeOption(j) == IF j = JsonNull THEN <<>> ELSE <<FromDecimal(j.number)>>

\* Mutant of SerializeParented: the parent is skipped.
SerializeParentedSkipParent(p) == [parent |-> JsonNull, flattened |-> p.bundle]

\* derive(Serialize, Deserialize) of Parented: an object with the member
\* "parent" and the members of the flattened bundle (the marker of a Frame is
\* skipped and default on reading).
SerializeParented(p) == [parent |-> SerializeOption(p.parent), flattened |-> p.bundle]
DeserializeParented(j) == [parent |-> DeserializeOption(j.parent), bundle |-> j.flattened]

\* A BTreeMap<u32, _> is written as an object whose members are in the order
\* of the keys, each key as the string of its decimal text; on reading, a
\* later member of the same key replaces an earlier one.
RECURSIVE SerializeMap(_)
SerializeMap(m) ==
    IF DOMAIN m = {}
    THEN <<>>
    ELSE LET k == CHOOSE x \in DOMAIN m : \A y \in DOMAIN m : x <= y
             rest == [x \in DOMAIN m \ {k} |-> m[x]]
         IN  <<[key |-> ToDecimal(k), value |-> SerializeParented(m[k])]>>
                 \o SerializeMap(rest)
DeserializeMap(members) ==
    LET keyOf(i) == FromDecimal(members[i].key)
        last(k) == CHOOSE i \in 1..Len(members) :
                       /\ keyOf(i) = k
                       /\ \A j \in 1..Len(members) : keyOf(j) = k => j <= i
    IN  [k \in {keyOf(i) : i \in 1..Len(members)} |->
            DeserializeParented(members[last(k)].value)]

\* Workcell::to_string and to_writer: the properties are flattened into the
\* object next to "frames" and "models".
to_string(w) ==
    [name |-> w.name, frames |-> SerializeMap(w.frames), models |-> SerializeMap(w.models)]

\* Workcell::from_str, from_reader and from_bytes.
from_str(j) ==
    [name |-> j.name, frames |-> DeserializeMap(j.frames),
     models |-> DeserializeMap(j.models)]

WorkcellToString ==
    /\ written = NoText
    /\ written' = to_string(workcell)
    /\ UNCHANGED <<program, editorVars, sandboxVars, drawingVars, workcell, parsed,
                   urdfVars, uiVars, previewVars>>

WorkcellFromStr ==
    /\ written # NoText
    /\ parsed = NoWorkcell
    /\ parsed' = from_str(written)
    /\ UNCHANGED <<program, editorVars, sandboxVars, drawingVars, workcell, written,
                   urdfVars, uiVars, previewVars>>

\* ------------------------------------------------------------- urdf loader
\* The bytes of the asset files: '<', 'r', '>', the two bytes 0xC3 0xA9 of the
\* UTF-8 encoding of U+00E9, and 0xFF, which no UTF-8 text holds.
Bytes == {60, 114, 62, 195, 169, 255}
ByteStrings == UNION {[1..n -> Bytes] : n \in 0..MaxBytes}

NoAsset == <<>>

Continuation(b, lo, hi) == b >= lo /\ b <= hi

\* The number of bytes of the UTF-8 sequence that starts at bytes[i], 0 where
\* no well-formed sequence starts (std::str::from_utf8 accepts neither
\* overlong forms nor surrogates nor code points above U+10FFFF).
Utf8Width(bytes, i) ==
    LET n == Len(bytes)
        b == bytes[i]
        At(k) == IF i + k <= n THEN bytes[i + k] ELSE 0
    IN  IF b < 128 THEN 1
        ELSE IF b >= 194 /\ b <= 223
        THEN IF Continuation(At(1), 128, 191) THEN 2 ELSE 0
        ELSE IF b >= 224 /\ b <= 239
        THEN IF /\ Continuation(At(1), IF b = 224 THEN 160 ELSE 128,
                                IF b = 237 THEN 159 ELSE 191)
                /\ Continuation(At(2), 128, 191)
             THEN 3 ELSE 0
        ELSE IF b >= 240 /\ b <= 244
        THEN IF /\ Continuation(At(1), IF b = 240 THEN 144 ELSE 128,
                                IF b = 244 THEN 143 ELSE 191)
                /\ Continuation(At(2), 128, 191)
                /\ Continuation(At(3), 128, 191)
             THEN 4 ELSE 0
        ELSE 0

\* The code point of the sequence of width w that starts at bytes[i].
Utf8Char(bytes, i, w) ==
    CASE w = 1 -> bytes[i]
      [] w = 2 -> (bytes[i] - 192) * 64 + (bytes[i + 1] - 128)
      [] w = 3 -> (bytes[i] - 224) * 4096 + (bytes[i + 1] - 128) * 64
                  + (bytes[i + 2] - 128)
      [] w = 4 -> (bytes[i] - 240) * 262144 + (bytes[i + 1] - 128) * 4096
                  + (bytes[i + 2] - 128) * 64 + (bytes[i + 3] - 128)

RECURSIVE Utf8From(_, _, _)
Utf8From(bytes, i, acc) ==
    IF i > Len(bytes) THEN [ok |-> acc]
    ELSE LET w == Utf8Width(bytes, i)
         IN  IF w = 0 THEN Err
             ELSE Utf8From(bytes, i + w, Append(acc, Utf8Char(bytes, i, w)))

\* std::str::from_utf8(bytes): Ok(the text, as its code points) or Err.
from_utf8(bytes) == Utf8From(bytes, 1, <<>>)

\* Mutant of from_utf8: the bytes are taken as Latin-1, every byte a character.
from_utf8_unchecked(bytes) == [ok |-> bytes]

\* urdf_rs::read_from_string(text): Ok(Robot) for a robot description, Err for
\* any other text.  The descriptions of this model are the texts "<r" name ">"
\* with a name that holds neither '<' nor '>'.
read_from_string(text) ==
    IF /\ Len(text) >= 3
       /\ text[1] = 60 /\ text[2] = 114 /\ text[Len(text)] = 62
       /\ \A k \in 3..(Len(text) - 1) : text[k] \notin {60, 62}
    THEN [ok |-> [name |-> SubSeq(text, 3, Len(text) - 1)]]
    ELSE Err

\* Mutant of load_urdf: the bytes are not checked to be UTF-8.
load_urdf_unchecked(bytes) ==
    LET utf == from_utf8_unchecked(bytes)
        res == IF utf = Err THEN Err ELSE read_from_string(utf.ok)
    IN  IF res # Err
        THEN [asset |-> <<[UrdfRoot |-> res.ok]>>, result |-> "Ok"]
        ELSE [asset |-> NoAsset, result |-> "ParsingError"]

\* load_urdf(bytes, load_context): the default asset it leaves in the
\* LoadContext and the Result it returns.
load_urdf(bytes) ==
    LET utf == from_utf8(bytes)
        res == IF utf = Err THEN Err ELSE read_from_string(utf.ok)
    IN  IF res # Err
        THEN [asset |-> <<[UrdfRoot |-> res.ok]>>, result |-> "Ok"]
        ELSE [asset |-> NoAsset, result |-> "ParsingError"]

\* load_xacro(bytes, load_context)
load_xacro(bytes) == [asset |-> NoAsset, result |-> "ParsingError"]

\* UrdfLoader::load, for a file with the extension urdf.
LoadUrdf ==
    /\ urdfLoader = "none"
    /\ urdfLoader' = "urdf"
    /\ defaultAsset' = load_urdf(urdfBytes).asset
    /\ loadResult' = load_urdf(urdfBytes).result
    /\ UNCHANGED <<program, editorVars, sandboxVars, drawingVars, workcellVars,
                   urdfBytes, uiVars, previewVars>>

\* XacroLoader::load, for a file with the extension xacro.
LoadXacro ==
    /\ urdfLoader = "none"
    /\ urdfLoader' = "xacro"
    /\ defaultAsset' = load_xacro(urdfBytes).asset
    /\ loadResult' = load_xacro(urdfBytes).result
    /\ UNCHANGED <<program, editorVars, sandboxVars, drawingVars, workcellVars,
                   urdfBytes, uiVars, previewVars>>

\* --------------------------------------------------------------- ui layout
\* Hover(None) and Hover(Some(e)) for the entities the widgets can point to.
HoverNone == [hover |-> <<>>]
HoverSome(e) == [hover |-> <<e>>]
HoverTargets == {1, 2}

\* What the widgets of the panel send to events.request.hover in one run.
WidgetHovers == {<<>>} \cup {<<HoverSome(e)>> : e \in HoverTargets}

NoUiRun == [ran |-> FALSE, focus |-> FALSE, widgetHovers |-> 0, hoverNone |-> 0]

\* Events<Hover>::update, once at the start of every frame: the events of
\* the frame before the last are dropped, those of the last frame are kept.
EventsUpdate ==
    /\ uiPhase = "update"
    /\ uiFrames < MaxFrames
    /\ uiFrames' = uiFrames + 1
    /\ hoverOld' = hoverNew
    /\ hoverNew' = <<>>
    /\ uiPhase' = "systems"
    /\ UNCHANGED <<program, editorVars, sandboxVars, drawingVars, workcellVars,
                   urdfVars, previewVars, pickingBlockers, uiRun>>

\* Events<Hover>::is_empty: no event in either buffer.
EventsIsEmpty(old, new) == Len(old) + Len(new) = 0

\* The end of standard_ui_layout: the events it leaves in Events<Hover> when
\* the buffers hold old and sent and the UI has the focus ui_has_focus.
SendHoverNone(old, sent, ui_has_focus) ==
    IF ui_has_focus /\ EventsIsEmpty(old, sent)
    THEN Append(sent, HoverNone)
    ELSE sent

\* standard_ui_layout: the widgets of the panel are shown and send their
\* hover events, the focus of the UI is read from the egui context, the
\* picking blocker is told, and Hover(None) is sent when the UI has the focus
\* and Events<Hover> is empty.  A widget is hovered only under the pointer, and
\* then is_pointer_over_area gives the UI the focus.
StandardUiLayout(ui_has_focus, widgets) ==
    /\ uiPhase = "systems"
    /\ widgets # <<>> => ui_has_focus
    /\ LET sent == hoverNew \o widgets
       IN  /\ hoverNew' = SendHoverNone(hoverOld, sent, ui_has_focus)
           /\ uiRun' = [ran |-> TRUE, focus |-> ui_has_focus,
                        widgetHovers |-> Len(widgets),
                        hoverNone |-> Len(hoverNew') - Len(sent)]
    /\ pickingBlockers' =
          IF pickingBlockers.present
          THEN [pickingBlockers EXCEPT !.ui = ui_has_focus]
          ELSE pickingBlockers
    /\ uiPhase' = "update"
    /\ UNCHANGED <<program, editorVars, sandboxVars, drawingVars, workcellVars,
                   urdfVars, previewVars, hoverOld, uiFrames>>

\* ---------------------------------------------------------- camera previews
\* The physical cameras, the sensor child of each (children[0]), and one
\* entity that is no camera.
CameraIds == 1..MaxCameras
Sensor(r) == MaxCameras + r
Sensors == {Sensor(r) : r \in CameraIds}
OtherEntity == 2 * MaxCameras + 1
PreviewEntities == CameraIds \cup Sensors \cup {OtherEntity}

\* PhysicalCameraProperties: width, height and horizontal_fov.
CameraProperties ==
    {[width |-> 4, height |-> 2, horizontal_fov |-> 1],
     [width |-> 8, height |-> 2, horizontal_fov |-> 1]}
DefaultProperties == [width |-> 4, height |-> 2, horizontal_fov |-> 1]

NoWindow == [none |-> TRUE]
InactiveCamera == [is_active |-> FALSE, target |-> 0]
DefaultFov == [num |-> 0, den |-> 1]
PreviewOp(name, events, opened) == [op |-> name, events |-> events, opened |-> opened]
NoPreviewOp == PreviewOp("none", <<>>, {})

\* SpawnPreview { entity: Option<Entity> }
SpawnPreview(entity) == [entity |-> entity]
SpawnPreviews ==
    {SpawnPreview(<<>>)} \cup {SpawnPreview(<<e>>) : e \in PreviewEntities}

\* The previewable query of manage_previews: entities with Children, NameInSite,
\* PhysicalCameraProperties and the PreviewableMarker that have no Window.
Previewable(e) == e \in CameraIds /\ window[e] = NoWindow

\* perspective_projection.fov = horizontal_fov / (width / height)
PerspectiveFov(camera_properties) ==
    [num |-> camera_properties.horizontal_fov * camera_properties.height,
     den |-> camera_properties.width]

\* The Window that create_camera_window inserts: the resolution of the camera
\* and the title "Camera preview: " + camera_name.
CameraWindow(camera_name, camera_properties) ==
    [resolution |-> <<camera_properties.width, camera_properties.height>>,
     title |-> camera_name]

\* The cameras that the events evs of one run of manage_previews open a
\* window for.
PreviewTargets(evs) ==
    {e \in CameraIds :
        /\ \E k \in 1..Len(evs) : evs[k].entity = <<e>>
        /\ Previewable(e)}

\* The user asks for the preview of an entity, or of none.
SendSpawnPreview(ev) ==
    /\ program = "site_editor"
    /\ Len(previewEvents) < MaxEvents
    /\ previewEvents' = Append(previewEvents, ev)
    /\ previewOp' = PreviewOp("spawn_preview", <<ev>>, {})
    /\ UNCHANGED <<program, editorVars, sandboxVars, drawingVars, workcellVars,
                   urdfVars, uiVars, cameraProperties, changedProperties, window,
                   camera, projection, closedWindows, closedBefore>>

\* The user edits the PhysicalCameraProperties of the camera r.
ChangeCameraProperties(r, p) ==
    /\ program = "site_editor"
    /\ cameraProperties[r] # p
    /\ cameraProperties' = [cameraProperties EXCEPT ![r] = p]
    /\ changedProperties' = changedProperties \cup {r}
    /\ previewOp' = PreviewOp("change_properties", <<>>, {})
    /\ UNCHANGED <<program, editorVars, sandboxVars, drawingVars, workcellVars,
                   urdfVars, uiVars, window, camera, projection, previewEvents,
                   closedWindows, closedBefore>>

\* manage_previews: every event that names a previewable entity whose first
\* child is a camera sets the fov of that child and, through Commands, inserts
\* a Window, an active Camera that renders to it and the RenderLayers into
\* the child.
ManagePreviews ==
    /\ program = "site_editor"
    /\ previewEvents # <<>>
    /\ LET targets == PreviewTargets(previewEvents)
       IN  /\ projection' = [c \in Sensors |->
                                IF \E e \in targets : Sensor(e) = c
                                THEN PerspectiveFov(cameraProperties[c - MaxCameras])
                                ELSE projection[c]]
           /\ window' = [x \in PreviewEntities |->
                            IF x \in Sensors /\ (x - MaxCameras) \in targets
                            THEN CameraWindow(x - MaxCameras,
                                              cameraProperties[x - MaxCameras])
                            ELSE window[x]]
           /\ camera' = [c \in Sensors |->
                            IF (c - MaxCameras) \in targets
                            THEN [is_active |-> TRUE, target |-> c]
                            ELSE camera[c]]
           /\ previewOp' = PreviewOp("manage_previews", previewEvents,
                                     {c \in Sensors : window[c] = NoWindow
                                                      /\ window'[c] # NoWindow})
    /\ previewEvents' = <<>>
    /\ UNCHANGED <<program, editorVars, sandboxVars, drawingVars, workcellVars,
                   urdfVars, uiVars, cameraProperties, changedProperties,
                   closedWindows, closedBefore>>

\* update_physical_camera_preview: the query asks for Children,
\* PhysicalCameraProperties and Window on one entity.
UpdatedCameraPreviews ==
    {r \in changedProperties : window[r] # NoWindow}

UpdatePhysicalCameraPreview ==
    /\ program = "site_editor"
    /\ changedProperties # {}
    /\ projection' = [c \in Sensors |->
                         IF (c - MaxCameras) \in UpdatedCameraPreviews
                         THEN PerspectiveFov(cameraProperties[c - MaxCameras])
                         ELSE projection[c]]
    /\ window' = [x \in PreviewEntities |->
                     IF x \in UpdatedCameraPreviews
                     THEN [window[x] EXCEPT !.resolution =
                              <<cameraProperties[x].width, cameraProperties[x].height>>]
                     ELSE window[x]]
    /\ changedProperties' = {}
    /\ previewOp' = PreviewOp("update_physical_camera_preview", <<>>, {})
    /\ UNCHANGED <<program, editorVars, sandboxVars, drawingVars, workcellVars,
                   urdfVars, uiVars, cameraProperties, camera, previewEvents,
                   closedWindows, closedBefore>>

\* The window of the entity x is closed: WindowClosed names x.
CloseWindow(x) ==
    /\ program = "site_editor"
    /\ Len(closedWindows) < MaxEvents
    /\ window[x] # NoWindow
    /\ closedWindows' = Append(closedWindows, x)
    /\ previewOp' = PreviewOp("close_window", <<>>, {})
    /\ UNCHANGED <<program, editorVars, sandboxVars, drawingVars, workcellVars,
                   urdfVars, uiVars, cameraProperties, changedProperties, window,
                   camera, projection, previewEvents, closedBefore>>

\* Mutant of RemoveClosed: every preview window is closed with the one named.
RemoveEveryWindow(windows, closed) ==
    [x \in PreviewEntities |->
        IF closed # <<>> THEN NoWindow ELSE windows[x]]

\* The loops of handle_preview_window_close: the Window is removed from every
\* entity of the query that a WindowClosed event names.
RemoveClosed(windows, closed) ==
    [x \in PreviewEntities |->
        IF windows[x] # NoWindow /\ \E k \in 1..Len(closed) : closed[k] = x
        THEN NoWindow
        ELSE windows[x]]

\* handle_preview_window_close
HandlePreviewWindowClose ==
    /\ program = "site_editor"
    /\ closedWindows # <<>>
    /\ window' = RemoveClosed(window, closedWindows)
    /\ closedBefore' = closedBefore \cup
                          {x \in PreviewEntities : window[x] # NoWindow
                                                   /\ window'[x] = NoWindow}
    /\ closedWindows' = <<>>
    /\ previewOp' = PreviewOp("handle_preview_window_close", <<>>, {})
    /\ UNCHANGED <<program, editorVars, sandboxVars, drawingVars, workcellVars,
                   urdfVars, uiVars, cameraProperties, changedProperties, camera,
                   projection, previewEvents>>

\* ----------------------------------------------------------- specification
EditorInit ==
    /\ anchors = {}
    /\ nextAnchor = 0
    /\ anchorPos = [a \in AnchorIds |-> <<0, 0>>]
    /\ dependents = [a \in AnchorIds |-> {}]
    /\ measurements = {}
    /\ nextMeasurement = 0
    /\ edge = [e \in MeasurementIds |-> NoEdge]
    /\ segment = [e \in MeasurementIds |-> NoSegment]
    /\ changedAnchors = {}
    /\ changedEdges = {}
    /\ ops = 0
    /\ panicked = FALSE
    /\ lastOp = NoOp
    /\ tickLog = NoTick

SandboxIdle ==
    /\ vertices = <<<<0, 0>>, <<0, 0>>>>
    /\ sandboxMeasurement = [start |-> 1, end |-> 1]
    /\ levelZ = 0
    /\ spawned = NoSegment

\* The sandbox loads a level: two vertices and one measurement between them
\* (vertex indices are 1-based here, 0-based in the Vec).
SandboxInit ==
    /\ vertices \in [1..2 -> Positions]
    /\ sandboxMeasurement \in [start : 1..2, end : 1..2]
    /\ levelZ \in LevelElevations
    /\ spawned = NoSegment

DrawingIdle ==
    /\ drawings = {}
    /\ source = [d \in DrawingIds |-> 1]
    /\ pose = [d \in DrawingIds |-> <<0, 0>>]
    /\ pixelsPerMeter = [d \in DrawingIds |-> 1]
    /\ ranking = <<>>
    /\ recencyRank = [d \in DrawingIds |-> NoRank]
    /\ rootTransform = [d \in DrawingIds |-> NoTransform]
    /\ drawingSegments = [d \in DrawingIds |-> 0]
    /\ leaves = [d \in DrawingIds |-> <<>>]
    /\ loadingDrawings = [i \in ImageIds |-> NoEntry]
    /\ imageLoad = [i \in ImageIds |-> "unloaded"]
    /\ assetEvents = <<>>
    /\ workspace = TRUE
    /\ floorVisibility = "default"
    /\ addedDrawings = {}
    /\ changedSource = {}
    /\ changedRank = {}
    /\ changedPpm = {}
    /\ edits = 0
    /\ inFrame = FALSE
    /\ drawingOp = NoDrawingOp
    /\ requestedImage = [d \in DrawingIds |-> 0]

\* Workcell::default()
WorkcellIdle ==
    /\ workcell = [name |-> "", frames |-> <<>>, models |-> <<>>]
    /\ written = NoText
    /\ parsed = NoWorkcell

UrdfIdle ==
    /\ urdfBytes = <<>>
    /\ urdfLoader = "none"
    /\ defaultAsset = NoAsset
    /\ loadResult = "none"

UiIdle ==
    /\ hoverOld = <<>>
    /\ hoverNew = <<>>
    /\ pickingBlockers = [present |-> TRUE, ui |-> FALSE]
    /\ uiPhase = "update"
    /\ uiFrames = 0
    /\ uiRun = NoUiRun

PreviewIdle ==
    /\ cameraProperties = [r \in CameraIds |-> DefaultProperties]
    /\ changedProperties = {}
    /\ window = [x \in PreviewEntities |-> NoWindow]
    /\ camera = [c \in Sensors |-> InactiveCamera]
    /\ projection = [c \in Sensors |-> DefaultFov]
    /\ previewEvents = <<>>
    /\ closedWindows = <<>>
    /\ closedBefore = {}
    /\ previewOp = NoPreviewOp

AuxIdle == WorkcellIdle /\ UrdfIdle /\ UiIdle /\ PreviewIdle

Init ==
    /\ EditorInit
    /\ DrawingIdle
    /\ AuxIdle
    /\ \/ program = "site_editor" /\ SandboxIdle
       \/ program = "sandbox" /\ SandboxInit

Next ==
    \/ \E p \in Positions : CreateAnchor(p)
    \/ \E a \in AnchorIds, p \in Positions : MoveAnchor(a, p)
    \/ \E a \in AnchorIds : DeleteAnchor(a)
    \/ \E s \in AnchorIds, t \in AnchorIds : AddMeasurement(s, t)
    \/ \E e \in MeasurementIds, s \in AnchorIds, t \in AnchorIds : ChangeEdge(e, s, t)
    \/ \E e \in MeasurementIds : DeleteMeasurement(e)
    \/ Tick
    \/ SandboxSpawn

Spec == Init /\ [][Next]_vars

\* A site with one measurement between two anchors, after
\* add_measurement_visuals has run for it.
MeasuredSite ==
    /\ anchors = {1, 2}
    /\ nextAnchor = 2
    /\ anchorPos = [a \in AnchorIds |-> IF a = 2 THEN <<3, 4>> ELSE <<0, 0>>]
    /\ measurements = {1}
    /\ nextMeasurement = 1
    /\ edge = [e \in MeasurementIds |-> IF e = 1 THEN <<1, 2>> ELSE NoEdge]
    /\ dependents = RegisterEdge(anchors, [a \in AnchorIds |-> {}], <<1, 2>>, 1)
    /\ segment = [e \in MeasurementIds |->
                     IF e = 1 THEN UpdateMeasurementVisual(<<1, 2>>) ELSE NoSegment]
    /\ changedAnchors = {}
    /\ changedEdges = {}
    /\ ops = 0
    /\ panicked = FALSE
    /\ lastOp = NoOp
    /\ tickLog = NoTick

\* The drawings of a site that has a measurement.
DrawingInit ==
    /\ program = "site_editor"
    /\ MeasuredSite
    /\ SandboxIdle
    /\ DrawingIdle
    /\ AuxIdle

DrawingNext ==
    \/ \E i \in ImageIds : AddDrawing(i)
    \/ \E d \in DrawingIds, i \in ImageIds : ChangeSource(d, i)
    \/ \E d \in DrawingIds, p \in Poses : ChangePose(d, p)
    \/ \E d \in DrawingIds, ppm \in PixelsPerMeterValues : ChangePixelsPerMeter(d, ppm)
    \/ \E d \in DrawingIds, k \in DrawingIds : ChangeRank(d, k)
    \/ SetWorkspace
    \/ \E i \in ImageIds : ImageCreated(i)
    \/ UpdateRecencyRanks
    \/ AddDrawingVisuals
    \/ UpdateDrawingVisuals
    \/ HandleLoadedDrawing
    \/ UpdateDrawingRank
    \/ UpdateDrawingPixelsPerMeter

DrawingSpec == DrawingInit /\ [][DrawingNext]_vars

\* The site editor with anchors that can disappear while they are in use.
FaultInit ==
    /\ program = "site_editor"
    /\ EditorInit
    /\ SandboxIdle
    /\ DrawingIdle
    /\ AuxIdle

FaultNext ==
    \/ \E p \in Positions : CreateAnchor(p)
    \/ \E a \in AnchorIds, p \in Positions : MoveAnchor(a, p)
    \/ \E a \in AnchorIds : DeleteAnchor(a)
    \/ \E a \in AnchorIds : LoseAnchor(a)
    \/ \E s \in AnchorIds, t \in AnchorIds : AddMeasurement(s, t)
    \/ \E s \in AnchorIds, t \in AnchorIds : AddMeasurementStale(s, t)
    \/ \E e \in MeasurementIds, s \in AnchorIds, t \in AnchorIds : ChangeEdge(e, s, t)
    \/ \E e \in MeasurementIds : DeleteMeasurement(e)
    \/ Tick

FaultSpec == FaultInit /\ [][FaultNext]_vars

\* A workcell is written and read back.
WorkcellInit ==
    /\ program = "site_editor"
    /\ EditorInit
    /\ SandboxIdle
    /\ DrawingIdle
    /\ workcell \in Workcells
    /\ written = NoText
    /\ parsed = NoWorkcell
    /\ UrdfIdle
    /\ UiIdle
    /\ PreviewIdle

WorkcellNext == WorkcellToString \/ WorkcellFromStr

WorkcellSpec == WorkcellInit /\ [][WorkcellNext]_vars

\* The asset loaders, each on any file of at most MaxBytes bytes.
UrdfInit ==
    /\ program = "site_editor"
    /\ EditorInit
    /\ SandboxIdle
    /\ DrawingIdle
    /\ WorkcellIdle
    /\ urdfBytes \in ByteStrings
    /\ urdfLoader = "none"
    /\ defaultAsset = NoAsset
    /\ loadResult = "none"
    /\ UiIdle
    /\ PreviewIdle

UrdfNext == LoadUrdf \/ LoadXacro

UrdfSpec == UrdfInit /\ [][UrdfNext]_vars

\* The frames of the UI, with or without the PickingBlockers resource.
UiInit ==
    /\ program = "site_editor"
    /\ EditorInit
    /\ SandboxIdle
    /\ DrawingIdle
    /\ WorkcellIdle
    /\ UrdfIdle
    /\ PreviewIdle
    /\ hoverOld = <<>>
    /\ hoverNew = <<>>
    /\ pickingBlockers \in {[present |-> p, ui |-> FALSE] : p \in BOOLEAN}
    /\ uiPhase = "update"
    /\ uiFrames = 0
    /\ uiRun = NoUiRun

UiNext ==
    \/ EventsUpdate
    \/ \E ui_has_focus \in BOOLEAN, widgets \in WidgetHovers :
          StandardUiLayout(ui_has_focus, widgets)

UiSpec == UiInit /\ [][UiNext]_vars

\* The camera previews of a site with MaxCameras physical cameras.
PreviewInit ==
    /\ program = "site_editor"
    /\ EditorInit
    /\ SandboxIdle
    /\ DrawingIdle
    /\ WorkcellIdle
    /\ UrdfIdle
    /\ UiIdle
    /\ PreviewIdle

PreviewNext ==
    \/ \E ev \in SpawnPreviews : SendSpawnPreview(ev)
    \/ \E r \in CameraIds, p \in CameraProperties : ChangeCameraProperties(r, p)
    \/ ManagePreviews
    \/ UpdatePhysicalCameraPreview
    \/ \E x \in PreviewEntities : CloseWindow(x)
    \/ HandlePreviewWindowClose

PreviewSpec == PreviewInit /\ [][PreviewNext]_vars


\* ================================================================== claims
Names(ed) == {ed[1], ed[2]}
Referencing(a) == {e \in measurements : a \in Names(edge[e])}

\* C1: in every reachable state, for every anchor A and dependent D, D is in
\* the dependents of A exactly when D exists and its edge names A; an anchor
\* that does not exist has no dependents.
C1_BidirectionalConsistency ==
    \A a \in AnchorIds : \A d \in MeasurementIds :
        d \in dependents[a] <=> (a \in anchors /\ d \in Referencing(a))

\* C1 witness: an edge was just changed so that an anchor it named before is
\* no longer named, and that anchor lists nothing while the new one lists it.
C1_Witness ==
    /\ lastOp.op = "change_edge"
    /\ \E old \in anchors, new \in anchors :
        /\ old # new
        /\ edge[lastOp.target] = <<new, new>>
        /\ dependents[old] = {}
        /\ lastOp.target \in dependents[new]

\* C2: in every reachable state both anchors named by the edge of every
\* measurement exist.
C2_NoDanglingReference ==
    \A e \in measurements : edge[e][1] \in anchors /\ edge[e][2] \in anchors

\* C2 witness: the removal of an anchor that a measurement still names was
\* just asked for.
C2_Witness ==
    /\ lastOp.op = "delete_anchor"
    /\ Referencing(lastOp.target) # {}

\* C3: a step that deletes anchor A fails with AnchorInUse and leaves the
\* anchor store and the dependents index as they were when the dependents of
\* A are not empty, which is the case exactly when some measurement names A;
\* otherwise it succeeds and A is gone.
C3_DeleteStep ==
    lastOp'.op = "delete_anchor" =>
        LET a == lastOp'.target IN
        /\ a \in anchors
        /\ (dependents[a] # {}) <=> (Referencing(a) # {})
        /\ IF dependents[a] # {}
           THEN /\ lastOp'.result = "AnchorInUse"
                /\ anchors' = anchors
                /\ anchorPos' = anchorPos
                /\ dependents' = dependents
           ELSE /\ lastOp'.result = "Ok"
                /\ anchors' = anchors \ {a}
                /\ dependents' = dependents
C3_DeleteAnchorContract == [][C3_DeleteStep]_vars

\* C3 witness: an anchor was just deleted after a measurement had been
\* created and deleted again.
C3_Witness ==
    /\ lastOp.op = "delete_anchor"
    /\ lastOp.result = "Ok"
    /\ lastOp.target \notin anchors
    /\ nextMeasurement > Cardinality(measurements)

\* C4 as claimed: after a tick every affected dependent was recomputed
\* exactly once.
C4_ExactlyOnce ==
    lastOp.op = "tick" =>
        \A e \in tickLog.affected : tickLog.recomputes[e] = 1

\* C4 as amended: a tick recomputes a dependent once for every changed anchor
\* its edge names and once more if its own edge changed, hence every affected
\* dependent at least once and no other dependent at all.
C4_TickStep ==
    lastOp'.op = "tick" =>
        \A e \in MeasurementIds :
            /\ tickLog'.recomputes[e] =
                (IF e \in changedEdges \cap measurements THEN 1 ELSE 0)
                + Cardinality({a \in changedAnchors \cap anchors :
                                 e \in Referencing(a)})
            /\ e \in tickLog'.affected <=> tickLog'.recomputes[e] >= 1
C4_RecomputedPerChange == [][C4_TickStep]_vars

\* C4 witness: a tick has just recomputed one dependent more than once.
C4_Witness ==
    /\ lastOp.op = "tick"
    /\ \E e \in tickLog.affected : tickLog.recomputes[e] >= 2

\* C5: registering a pair twice leaves the dependents of every anchor as
\* registering it once does, and a measurement whose edge names one anchor
\* twice is in the set of that anchor.
C5_RegisterIdempotent ==
    /\ \A a \in AnchorIds : \A d \in MeasurementIds :
        Register(anchors, Register(anchors, dependents, a, d), a, d)
            = Register(anchors, dependents, a, d)
    /\ \A e \in measurements :
        edge[e][1] = edge[e][2] => e \in dependents[edge[e][1]]

\* C5 witness: a measurement was just added on one anchor for both ends, and
\* that anchor already listed another measurement.
C5_Witness ==
    /\ lastOp.op = "add_measurement"
    /\ edge[lastOp.target][1] = edge[lastOp.target][2]
    /\ Cardinality(dependents[edge[lastOp.target][1]]) = 2

\* C6: deregistering a pair that is not in the index leaves the dependents of
\* every anchor unchanged.
C6_DeregisterAbsentNoop ==
    \A a \in AnchorIds : \A d \in MeasurementIds :
        d \notin dependents[a] =>
            Deregister(anchors, dependents, a, d) = dependents

\* C6 witness: the last operation deregistered a pair that was absent, and
\* an anchor still lists a dependent.
C6_Witness ==
    /\ lastOp.absent > 0
    /\ \E a \in anchors : dependents[a] # {}


\* len is the exact square root of the squared distance between p and q.
IsDistance(len, p, q) ==
    /\ len.whole >= 0 /\ len.rem >= 0 /\ len.rem <= 2 * len.whole
    /\ len.whole * len.whole + len.rem
        = (q[1] - p[1]) * (q[1] - p[1]) + (q[2] - p[2]) * (q[2] - p[2])

\* yaw is the angle of the vector from p to q: a reduced direction that is
\* parallel to q - p and points the same way.
IsDirection(yaw, p, q) ==
    /\ yaw[1] * (q[2] - p[2]) = yaw[2] * (q[1] - p[1])
    /\ yaw[1] * (q[1] - p[1]) + yaw[2] * (q[2] - p[2]) > 0
    /\ \A k \in 2..4 : ~(yaw[1] % k = 0 /\ yaw[2] % k = 0)

\* c is the midpoint of p and q.
IsMidpoint(c, p, q) ==
    /\ 2 * c[1].num = (p[1] + q[1]) * c[1].den
    /\ 2 * c[2].num = (p[2] + q[2]) * c[2].den

\* The measurements whose segment the operation that led here has computed.
JustComputed ==
    IF lastOp.op = "tick"
    THEN {e \in measurements : tickLog.recomputes[e] > 0}
    ELSE IF lastOp.op = "add_measurement" THEN {lastOp.target} ELSE {}

StartPos(e) == anchorPos[edge[e][1]]
EndPos(e) == anchorPos[edge[e][2]]
SandboxStart == vertices[sandboxMeasurement.start]
SandboxEnd == vertices[sandboxMeasurement.end]

\* C9: a segment that was just computed for two anchors at different
\* positions is as long as their Euclidean distance, is turned by the angle
\* of end - start and is centred on their midpoint; so is the measurement the
\* sandbox spawns between two different vertices.
C9_LengthYawMidpoint ==
    /\ ~panicked =>
        \A e \in JustComputed : StartPos(e) # EndPos(e) =>
            /\ IsDistance(segment[e].scale[1], StartPos(e), EndPos(e))
            /\ IsDirection(segment[e].rotation, StartPos(e), EndPos(e))
            /\ IsMidpoint(segment[e].translation, StartPos(e), EndPos(e))
    /\ (spawned # NoSegment /\ SandboxStart # SandboxEnd) =>
            /\ IsDistance(spawned.mesh[1], SandboxStart, SandboxEnd)
            /\ IsDirection(spawned.rotation, SandboxStart, SandboxEnd)
            /\ IsMidpoint(spawned.translation, SandboxStart, SandboxEnd)

\* C9 witness: a tick has just recomputed a measurement from an anchor at
\* (0,0) to an anchor at (3,4), and its length is 5.
C9_Witness ==
    /\ lastOp.op = "tick"
    /\ \E e \in JustComputed :
        /\ StartPos(e) = <<0, 0>>
        /\ EndPos(e) = <<3, 4>>
        /\ segment[e].scale[1] = [whole |-> 5, rem |-> 0]
        /\ segment[e].rotation = <<3, 4>>

ZeroLength == [whole |-> 0, rem |-> 0]
ZeroYaw == <<1, 0>>

\* C10 as claimed: a tick that recomputes a measurement whose two anchors
\* coincide gives it length 0 and leaves its orientation as it was.
C10_DegenerateStep ==
    lastOp'.op = "tick" =>
        \A e \in measurements :
            (tickLog'.recomputes[e] > 0 /\ StartPos(e) = EndPos(e)) =>
                /\ ~panicked'
                /\ segment'[e].scale[1] = ZeroLength
                /\ segment'[e].rotation = segment[e].rotation
C10_KeepsOrientation == [][C10_DegenerateStep]_vars

\* C10 as amended: a segment that was just computed for two coinciding
\* anchors has length 0 and the orientation of yaw 0, nothing panicked; the
\* sandbox spawns a measurement between coinciding vertices with length 0 and
\* yaw 0 as well.
C10_DegenerateIsZero ==
    /\ \A e \in JustComputed : StartPos(e) = EndPos(e) =>
            /\ ~panicked
            /\ segment[e].scale[1] = ZeroLength
            /\ segment[e].rotation = ZeroYaw
    /\ (spawned # NoSegment /\ SandboxStart = SandboxEnd) =>
            /\ spawned.mesh[1] = ZeroLength
            /\ spawned.rotation = ZeroYaw

\* C10 witness: a tick has just recomputed a measurement between two
\* different anchors that are at the same position.
C10_Witness ==
    /\ lastOp.op = "tick"
    /\ \E e \in JustComputed :
        /\ edge[e][1] # edge[e][2]
        /\ StartPos(e) = EndPos(e)

\* ------------------------------------------------------------------ C7, C8
Leaf(d) == leaves[d][drawingSegments[d]]
HasLeaf(d) == drawingSegments[d] # 0

\* The step is a run of update_drawing_rank.
C7_RankStep == drawingOp'.op = "update_drawing_rank"

\* C7: a run of update_drawing_rank, which applies the rank changes of the
\* drawings, changes nothing but the z of the leaf of a drawing whose rank
\* changed, and sets that z to the layer height of the new rank: the
\* transform of every drawing entity (translation, rotation, scale), the x, y,
\* rotation, scale and mesh of every leaf, the number of leaves, and the z of
\* the leaves of the drawings whose rank did not change stay as they were.
C7_RankChangesOnlyZ ==
    [][C7_RankStep =>
        /\ rootTransform' = rootTransform
        /\ drawingSegments' = drawingSegments
        /\ \A d \in DrawingIds :
            /\ Len(leaves'[d]) = Len(leaves[d])
            /\ \A k \in 1..Len(leaves[d]) :
                /\ [leaves'[d][k] EXCEPT !.z = leaves[d][k].z] = leaves[d][k]
                /\ d \notin changedRank => leaves'[d][k] = leaves[d][k]
            /\ (d \in changedRank /\ HasLeaf(d)) =>
                  leaves'[d][drawingSegments[d]].z = DrawingLayerHeight(recencyRank[d])
    ]_vars

\* update_drawing_rank has just moved the leaf of a drawing to the layer of a
\* rank above the lowest, while another ranked drawing that has a leaf kept
\* its rank.
C7_Witness ==
    /\ drawingOp.op = "update_drawing_rank"
    /\ \E d \in drawingOp.touched, other \in DrawingIds \ drawingOp.touched :
        /\ HasLeaf(d)
        /\ Leaf(d).z > DRAWING_LAYER_START
        /\ Leaf(d).z = DrawingLayerHeight(recencyRank[d])
        /\ HasLeaf(other)
        /\ recencyRank[other] # NoRank

SameLinks(m, n) ==
    /\ DOMAIN m = DOMAIN n
    /\ \A k \in DOMAIN m : m[k].parent = n[k].parent

Dangling(e) ==
    e \in measurements /\ ~(edge[e][1] \in anchors /\ edge[e][2] \in anchors)

\* C12 as stated: when the propagation of a tick fails for one dependent, every
\* other affected dependent is still recomputed in that tick.
C12_OthersRecomputed ==
    (lastOp.op = "tick" /\ tickLog.failed # {}) =>
        \A e \in tickLog.affected \ tickLog.failed : tickLog.recomputes[e] >= 1

C12_AbortStep ==
    /\ ~panicked
    /\ (lastOp'.op = "tick" /\ tickLog'.failed # {}) =>
            /\ panicked'
            /\ \A e \in tickLog'.failed : segment'[e] = segment[e]
            /\ \A e \in MeasurementIds \ tickLog'.failed :
                  segment'[e] \in {segment[e], UpdateMeasurementVisual(edge[e])}

\* C12, amended: a propagation failure for one dependent is a panic that ends
\* the tick and the process.  The failure is reported by the panic, the failing
\* dependent keeps its geometry, every other dependent either was recomputed
\* before the panic or keeps the geometry it had, and nothing runs afterwards.
C12_FailureAborts == [][C12_AbortStep]_vars

\* A tick failed for one dependent while another dependent was affected too.
C12_Witness ==
    /\ lastOp.op = "tick"
    /\ panicked
    /\ tickLog.failed # {}
    /\ tickLog.affected \ tickLog.failed # {}

C13_DanglingStep ==
    lastOp'.op = "tick" =>
        \A e \in MeasurementIds :
            (Dangling(e) /\ Recomputes(e) > 0) =>
                /\ panicked'
                /\ e \in tickLog'.failed
                /\ segment'[e] = segment[e]

C15_TickStep ==
    lastOp'.op = "tick" =>
        \A e \in MeasurementIds :
            /\ e \in Affected => segment'[e] = UpdateMeasurementVisual(edge[e])
            /\ e \notin Affected => segment'[e] = segment[e]

C15_Fresh ==
    lastOp.op = "tick" =>
        \A e \in measurements :
            HasSegment(e) /\ segment[e] = UpdateMeasurementVisual(edge[e])

\* C15: a tick gives every dependent of its affected set the geometry that is
\* the function of its current edge and the current anchor positions and
\* leaves the geometry of every other dependent as it was; at the end of a
\* tick no measurement shows geometry of outdated positions or an outdated
\* edge.
C15_FreshAtTickEnd == []C15_Fresh /\ [][C15_TickStep]_vars

\* A tick has recomputed one measurement and left another one alone.
C15_Witness ==
    /\ lastOp.op = "tick"
    /\ tickLog.affected # {}
    /\ measurements \ tickLog.affected # {}
    /\ \E e \in tickLog.affected : edge[e][1] # edge[e][2]

\* C16 as stated: after the creation step the new dependent is registered
\* under every anchor that its edge names.
C16_RegisteredUnderEvery ==
    lastOp.op = "add_measurement" =>
        \A a \in anchors :
            a \in {edge[lastOp.target][1], edge[lastOp.target][2]} =>
                lastOp.target \in dependents[a]

\* C16, amended: add_measurement_visuals computes the geometry first and
\* registers afterwards.  A creation on two existing anchors leaves the
\* dependent with its geometry and registered under both anchors of its edge;
\* a creation whose edge names a missing anchor panics at the geometry, before
\* the dependent is registered anywhere.
C16_GeometryThenRegistration ==
    lastOp.op = "add_measurement" =>
        LET e == lastOp.target
        IN  IF panicked
            THEN /\ Dangling(e)
                 /\ segment[e] = NoSegment
                 /\ \A a \in AnchorIds : e \notin dependents[a]
            ELSE /\ HasSegment(e)
                 /\ edge[e][1] \in anchors /\ edge[e][2] \in anchors
                 /\ e \in dependents[edge[e][1]]
                 /\ e \in dependents[edge[e][2]]

\* A creation has panicked on an edge with one existing anchor.
C16_Witness ==
    /\ lastOp.op = "add_measurement"
    /\ panicked
    /\ \E a \in anchors : a \in {edge[lastOp.target][1], edge[lastOp.target][2]}


\* The files that are UTF-8 text, said of the bytes: 0xFF does not occur, and
\* 0xC3 and 0xA9 occur only as the pair 0xC3 0xA9.
C14_ValidUtf8 ==
    \A i \in 1..Len(urdfBytes) :
        /\ urdfBytes[i] # 255
        /\ urdfBytes[i] = 195 => (i < Len(urdfBytes) /\ urdfBytes[i + 1] = 169)
        /\ urdfBytes[i] = 169 => (i > 1 /\ urdfBytes[i - 1] = 195)

\* The files that hold a robot description: "<r", a name without '<' and
\* '>', and ">".
C14_RobotDescription ==
    /\ Len(urdfBytes) >= 3
    /\ urdfBytes[1] = 60 /\ urdfBytes[2] = 114
    /\ urdfBytes[Len(urdfBytes)] = 62
    /\ \A i \in 3..(Len(urdfBytes) - 1) : urdfBytes[i] \notin {60, 62}

\* C14: the xacro loader returns the parsing error for every file and sets no
\* asset; the urdf loader sets the default asset and returns Ok exactly for
\* the files that are valid UTF-8 and hold a robot description, and returns
\* the parsing error without setting an asset for every other file.
C14_Loaders ==
    /\ urdfLoader = "xacro" =>
          loadResult = "ParsingError" /\ defaultAsset = NoAsset
    /\ urdfLoader = "urdf" =>
          IF C14_ValidUtf8 /\ C14_RobotDescription
          THEN loadResult = "Ok" /\ Len(defaultAsset) = 1
          ELSE loadResult = "ParsingError" /\ defaultAsset = NoAsset

\* A robot description with a name outside ASCII has been loaded.
C14_Witness ==
    /\ urdfLoader = "urdf"
    /\ loadResult = "Ok"
    /\ defaultAsset = <<[UrdfRoot |-> [name |-> <<233>>]]>>


\* C17 as stated: a drawing has at most one leaf mesh child, and its
\* DrawingSegments names that leaf.
C17_AtMostOneLeaf ==
    \A d \in DrawingIds :
        /\ Len(leaves[d]) <= 1
        /\ Len(leaves[d]) = 1 => drawingSegments[d] = 1

\* C19 as stated, for the scale: when a frame ends with the completion of an
\* image load, the scale of the drawing is 1 / its current PixelsPerMeter.
C19_CurrentScale ==
    (~inFrame /\ drawingOp.op = "handle_loaded_drawing") =>
        \A d \in drawingOp.touched :
            rootTransform[d].scale = Scale(pixelsPerMeter[d])


\* C18 as stated, at the states where nothing is left to happen for the
\* drawings: the frame is over, no image event is pending, and every drawing
\* whose image was requested and has been created has its visuals.
C18_Materialized ==
    (~inFrame /\ assetEvents = <<>>) =>
        \A d \in drawings :
            (requestedImage[d] # 0 /\ imageLoad[requestedImage[d]] = "loaded") =>
                HasLeaf(d)


\* C20 as stated: after a run of standard_ui_layout the ui flag of the picking
\* blocker is the focus of the UI, and the run has sent exactly one
\* Hover(None) when the UI has the focus and its widgets sent no hover event
\* in that run, and none otherwise.
C20_HoverNoneWhenFocused ==
    uiRun.ran =>
        /\ pickingBlockers.present => pickingBlockers.ui = uiRun.focus
        /\ uiRun.hoverNone =
              IF uiRun.focus /\ uiRun.widgetHovers = 0 THEN 1 ELSE 0


\* The SpawnPreview events that name a camera.
NamesCamera(evs) ==
    \E k \in 1..Len(evs) : \E r \in CameraIds : evs[k].entity = <<r>>

C21_Step ==
    previewOp'.op = "manage_previews" =>
        /\ \A c \in Sensors : window[c] # NoWindow => window'[c] = window[c]
        /\ ~NamesCamera(previewEvents) =>
              /\ window' = window
              /\ camera' = camera
              /\ projection' = projection

\* C21 as stated: manage_previews opens a window only for a previewable entity
\* that has no preview open.  A SpawnPreview for a camera whose preview is
\* open neither creates nor replaces its window, and a SpawnPreview with no
\* entity or with an entity that is not previewable changes nothing.
C21_OnlyWithoutPreview == [][C21_Step]_vars

C22_Step ==
    /\ previewOp'.op = "handle_preview_window_close" =>
          \A x \in PreviewEntities :
              window'[x] = IF \E k \in 1..Len(closedWindows) : closedWindows[k] = x
                           THEN NoWindow
                           ELSE window[x]
    /\ previewOp'.op = "manage_previews" =>
          \A r \in CameraIds :
              (/\ Sensor(r) \in closedBefore
               /\ window[Sensor(r)] = NoWindow
               /\ \E k \in 1..Len(previewEvents) : previewEvents[k].entity = <<r>>)
              => window'[Sensor(r)] =
                    CameraWindow(r, cameraProperties[r])

\* C22: handle_preview_window_close removes the Window from the entities that
\* the WindowClosed events name and from no other entity, and a SpawnPreview
\* for a camera whose preview was closed opens its preview window again.
C22_CloseThenReopen == [][C22_Step]_vars

\* A preview that was closed has been opened again, while the preview of
\* another camera, never closed, stayed open.
C22_Witness ==
    /\ previewOp.op = "manage_previews"
    /\ \E c \in previewOp.opened \cap closedBefore :
          \E other \in Sensors \ closedBefore :
              other # c /\ window[other] # NoWindow


====
